---- MODULE Spec2Model ----
(***************************************************************************)
(* A model of weather.py: the SMHI point-forecast client.                  *)
(*                                                                         *)
(*   - the enumerated decoders WeatherSymbol.from_code and PCAT(value),    *)
(*   - date_str_to_datetime and SMHI_timeSeries_object_to_WeatherDataEntry *)
(*     (the per-timestep decoder),                                         *)
(*   - SMHIHelper: the timestamp -> entry dict hourly_forecasts, fetch and *)
(*     the four query methods.                                             *)
(*                                                                         *)
(* Python values are modelled as follows.  A dict is the sequence of its   *)
(* items <<[k, v], ...>> in insertion order (Python dicts iterate in       *)
(* insertion order).  A datetime is [day, hour] (all instants are UTC and  *)
(* lie on whole hours in the inputs used), ordered lexicographically; its  *)
(* date() is the day.  A call either returns, [ok |-> TRUE, val |-> v],    *)
(* or raises, [ok |-> FALSE, err |-> "<exception class>"].                 *)
(***************************************************************************)
EXTENDS Integers, Sequences, FiniteSets, TLC

VARIABLES
    hourly_forecasts,   \* SMHIHelper.hourly_forecasts
    op,                 \* the method the caller has just run ("none": between calls)
    arg,                \* its input: the HTTP payload's timeSeries, or the date
    ret,                \* what it returned or raised
    prev,               \* hourly_forecasts as it was when the method was entered
    obj,                \* decoder harness: one raw timeSeries object
    code,               \* decoder harness: one integer code
    threads,            \* concurrent harness: per thread [pc, payload, i]
    lock,               \* concurrent harness: holder of the per-store lock, 0 if free
    useLock             \* concurrent harness: do the callers serialize with the lock

vars == <<hourly_forecasts, op, arg, ret, prev, obj, code, threads, lock, useLock>>

----------------------------------------------------------------------------
(* Bounds *)

\* longest timeSeries array of a payload
MaxLen == 2
\* integer codes given to the enumerated decoders lie this far around the tables
CodeMargin == 3

----------------------------------------------------------------------------
(* Python results *)

Ok(v) == [ok |-> TRUE, val |-> v]
Raise(e) == [ok |-> FALSE, err |-> e]
None == [none |-> TRUE]

----------------------------------------------------------------------------
(* Enumerations *)

\* class WeatherSymbol(Enum): the members in definition order, each with the
\* code of its (code, icon) value.  All values are distinct tuples, so no
\* member is an alias of another.
WeatherSymbol ==
    << [name |-> "CLEAR_SKY", code |-> 1],
       [name |-> "NEARLY_CLEAR_SKY", code |-> 2],
       [name |-> "VARIABLE_CLOUDINESS", code |-> 3],
       [name |-> "HALFCLEAR_SKY", code |-> 4],
       [name |-> "CLOUDY_SKY", code |-> 5],
       [name |-> "OVERCAST", code |-> 6],
       [name |-> "FOG", code |-> 7],
       [name |-> "LIGHT_RAIN_SHOWERS", code |-> 8],
       [name |-> "MODERATE_RAIN_SHOWERS", code |-> 9],
       [name |-> "HEAVY_RAIN_SHOWERS", code |-> 10],
       [name |-> "THUNDERSTORM", code |-> 11],
       [name |-> "LIGHT_SLEET_SHOWERS", code |-> 12],
       [name |-> "MODERATE_SLEET_SHOWERS", code |-> 13],
       [name |-> "HEAVY_SLEET_SHOWERS", code |-> 14],
       [name |-> "LIGHT_SNOW_SHOWERS", code |-> 15],
       [name |-> "MODERATE_SNOW_SHOWERS", code |-> 16],
       [name |-> "HEAVY_SNOW_SHOWERS", code |-> 17],
       [name |-> "LIGHT_RAIN", code |-> 18],
       [name |-> "MODERATE_RAIN", code |-> 19],
       [name |-> "HEAVY_RAIN", code |-> 20],
       [name |-> "THUNDER", code |-> 21],
       [name |-> "LIGHT_SLEET", code |-> 22],
       [name |-> "MODERATE_SLEET", code |-> 23],
       [name |-> "HEAVY_SLEET", code |-> 24],
       [name |-> "LIGHT_SNOWFALL", code |-> 25],
       [name |-> "MODERATE_SNOWFALL", code |-> 26],
       [name |-> "HEAVY_SNOWFALL", code |-> 27] >>

\* the loop of from_code, from member i on
RECURSIVE from_code_scan(_, _)
from_code_scan(c, i) ==
    IF i > Len(WeatherSymbol) THEN Raise("ValueError")
    ELSE IF WeatherSymbol[i].code = c THEN Ok(WeatherSymbol[i])
    ELSE from_code_scan(c, i + 1)

\* a buggy from_code: falls back to the first member instead of raising
from_code_default(c) ==
    LET r == from_code_scan(c, 1) IN IF r.ok THEN r ELSE Ok(WeatherSymbol[1])

\* WeatherSymbol.from_code: the first member, in definition order, whose code
\* equals the argument; ValueError when the scan ends without one.
from_code(c) == from_code_scan(c, 1)

\* class PCAT(Enum): the members in definition order with their values.
PCAT ==
    << [name |-> "NO_PRECIPITATION", value |-> 0],
       [name |-> "SNOW", value |-> 1],
       [name |-> "SNOW_AND_RAIN", value |-> 2],
       [name |-> "RAIN", value |-> 3],
       [name |-> "DRIZZLE", value |-> 4],
       [name |-> "FREEZING_RAIN", value |-> 5],
       [name |-> "FREEZING_DRIZZLE", value |-> 6] >>

\* PCAT(value): Enum's lookup by value; ValueError when no member has it.
PCAT_call(v) ==
    IF \E i \in 1..Len(PCAT) : PCAT[i].value = v
    THEN Ok(PCAT[CHOOSE i \in 1..Len(PCAT) : PCAT[i].value = v])
    ELSE Raise("ValueError")

----------------------------------------------------------------------------
(* Dicts: sequences of items [k, v] in insertion order *)

Keys(d) == {d[i].k : i \in 1..Len(d)}
HasKey(d, k) == \E i \in 1..Len(d) : d[i].k = k

\* d[k]: KeyError when k is no key of d
DictGet(d, k) ==
    IF HasKey(d, k)
    THEN Ok(d[CHOOSE i \in 1..Len(d) : d[i].k = k].v)
    ELSE Raise("KeyError")

\* d.get(k): None when k is no key of d
DictGetOrNone(d, k) == IF HasKey(d, k) THEN DictGet(d, k).val ELSE None

\* a buggy d[k] = v: keeps the value an existing key already has
DictSetDefault(d, k, v) ==
    IF HasKey(d, k) THEN d ELSE Append(d, [k |-> k, v |-> v])

\* d[k] = v: an existing key keeps its place and takes the new value, a new
\* key goes last
DictSet(d, k, v) ==
    IF HasKey(d, k)
    THEN [i \in 1..Len(d) |-> IF d[i].k = k THEN [k |-> k, v |-> v] ELSE d[i]]
    ELSE Append(d, [k |-> k, v |-> v])

\* the mapping a dict denotes, as a function on its keys (dict equality in
\* Python ignores insertion order)
Mapping(d) == [k \in Keys(d) |-> DictGet(d, k).val]

----------------------------------------------------------------------------
(* Timestamps *)

\* datetime.__lt__ on two UTC datetimes
DtLess(a, b) == a.day < b.day \/ (a.day = b.day /\ a.hour < b.hour)

\* datetime.date()
DateOf(dt) == dt.day

\* date_str_to_datetime: strptime with "%Y-%m-%dT%H:%M:%SZ", then UTC attached.
\* A raw string is [shape, day, hour]: its literal layout, and the date and
\* hour digits it carries.  strptime raises ValueError when the layout is not
\* the format's or a field is out of range.
date_str_to_datetime(date_str) ==
    IF date_str.shape = "%Y-%m-%dT%H:%M:%SZ" /\ date_str.hour \in 0..23
    THEN Ok([day |-> date_str.day, hour |-> date_str.hour])
    ELSE Raise("ValueError")

----------------------------------------------------------------------------
(* SMHI_timeSeries_object_to_WeatherDataEntry *)

\* the keys of the WeatherDataEntry literal, in the order the literal
\* evaluates them
FieldOrder ==
    << "msl", "t", "vis", "wd", "ws", "r", "tstm", "tcc_mean", "lcc_mean",
       "mcc_mean", "hcc_mean", "gust", "pmin", "pmax", "spp", "pcat", "pmean",
       "pmedian", "Wsymb2" >>

FieldNames == {FieldOrder[i] : i \in 1..Len(FieldOrder)}

\* the dict comprehension building data_dict from obj["parameters"], items
\* from i on: IndexError when an item's values list is empty
RECURSIVE data_dict_from(_, _, _)
data_dict_from(params, i, acc) ==
    IF i > Len(params) THEN Ok(acc)
    ELSE IF Len(params[i].values) = 0 THEN Raise("IndexError")
    ELSE data_dict_from(params, i + 1,
            DictSet(acc, params[i].name,
                    [value |-> params[i].values[1], unit |-> params[i].unit]))

\* a buggy lookup: an absent parameter is filled with an absent value
MeasurementOrDefault(data_dict, name) ==
    LET m == DictGetOrNone(data_dict, name) IN
    IF m = None THEN Ok([value |-> None, unit |-> ""])
    ELSE IF name = "pcat" THEN
        LET p == PCAT_call(m.value) IN
        IF p.ok THEN Ok([value |-> p.val, unit |-> m.unit]) ELSE p
    ELSE IF name = "Wsymb2" THEN
        LET w == from_code(m.value) IN
        IF w.ok THEN Ok([value |-> w.val, unit |-> m.unit]) ELSE w
    ELSE Ok([value |-> m.value, unit |-> m.unit])

\* one field of the literal: data_dict.get(name)["value"] and ["unit"];
\* subscripting the None of an absent name raises TypeError; pcat goes through
\* PCAT(...) and Wsymb2 through WeatherSymbol.from_code(...)
Measurement(data_dict, name) ==
    LET m == DictGetOrNone(data_dict, name) IN
    IF m = None THEN Raise("TypeError")
    ELSE IF name = "pcat" THEN
        LET p == PCAT_call(m.value) IN
        IF p.ok THEN Ok([value |-> p.val, unit |-> m.unit]) ELSE p
    ELSE IF name = "Wsymb2" THEN
        LET w == from_code(m.value) IN
        IF w.ok THEN Ok([value |-> w.val, unit |-> m.unit]) ELSE w
    ELSE Ok([value |-> m.value, unit |-> m.unit])

\* the WeatherDataEntry literal, fields from i on: the first field that
\* raises ends the evaluation
RECURSIVE entry_from(_, _, _)
entry_from(data_dict, i, acc) ==
    IF i > Len(FieldOrder) THEN Ok(acc)
    ELSE LET m == Measurement(data_dict, FieldOrder[i]) IN
         IF m.ok
         THEN entry_from(data_dict, i + 1, DictSet(acc, FieldOrder[i], m.val))
         ELSE m

SMHI_timeSeries_object_to_WeatherDataEntry(o) ==
    LET valid_time == date_str_to_datetime(o.validTime) IN
    IF ~valid_time.ok THEN valid_time
    ELSE LET data_dict == data_dict_from(o.parameters, 1, <<>>) IN
         IF ~data_dict.ok THEN data_dict
         ELSE LET e == entry_from(data_dict.val, 1, <<>>) IN
              IF ~e.ok THEN e
              ELSE Ok([time |-> valid_time.val, forecast |-> Mapping(e.val)])

----------------------------------------------------------------------------
(* Inputs: raw timeSeries objects and HTTP responses *)

\* the instants of the payloads, as <<day, hour>>: two on one date, one on the next
Instants == {<<1, 0>>, <<1, 23>>, <<2, 0>>}
Days == {x[1] : x \in Instants}
Temps == {0, 1}

\* the unit strings the provider sends
UnitOf(name) ==
    CASE name = "msl" -> "hPa"
      [] name = "t" -> "Cel"
      [] name = "vis" -> "km"
      [] name = "wd" -> "degree"
      [] name \in {"ws", "gust"} -> "m/s"
      [] name \in {"r", "tstm", "spp"} -> "percent"
      [] name \in {"tcc_mean", "lcc_mean", "mcc_mean", "hcc_mean"} -> "octas"
      [] name \in {"pmin", "pmax", "pmean", "pmedian"} -> "kg/m2/h"
      [] OTHER -> "category"

RawTime(day, hour) == [shape |-> "%Y-%m-%dT%H:%M:%SZ", day |-> day, hour |-> hour]

\* one raw timeSeries object {validTime, parameters: [{name, unit, values}]}:
\* temperature t, precipitation category pc, weather symbol ws, every other
\* value 0; the names in absent are left out and those in hollow carry an
\* empty values list
RawObject(validTime, t, pc, ws, absent, hollow) ==
    LET names == SelectSeq(FieldOrder, LAMBDA n : n \notin absent)
        valueOf(n) == CASE n = "t" -> t [] n = "pcat" -> pc [] n = "Wsymb2" -> ws
                        [] OTHER -> 0
    IN [validTime |-> validTime,
        parameters |-> [i \in 1..Len(names) |->
            [name |-> names[i], unit |-> UnitOf(names[i]),
             values |-> IF names[i] \in hollow THEN <<>> ELSE <<valueOf(names[i])>>]]]

\* objects that decode
GoodObjects ==
    {RawObject(RawTime(x[1], x[2]), t, 3, 18 + t, {}, {}) : x \in Instants, t \in Temps}

\* objects that do not: a timestamp without T and Z, a missing parameter, an
\* unknown precipitation category, an unknown weather symbol
BadObjects ==
    { RawObject([shape |-> "%Y-%m-%d %H:%M:%S", day |-> 1, hour |-> 0], 0, 3, 18, {}, {}),
      RawObject(RawTime(1, 0), 0, 3, 18, {"msl"}, {}),
      RawObject(RawTime(1, 0), 0, 7, 18, {}, {}),
      RawObject(RawTime(1, 0), 0, 3, 28, {}, {}) }

SeqsUpTo(S, n) == UNION {[1..k -> S] : k \in 0..n}

Responses ==
    {[transport |-> "ok", timeSeries |-> p] : p \in SeqsUpTo(GoodObjects \cup BadObjects, MaxLen)}
    \cup {[transport |-> "ConnectionError", timeSeries |-> <<>>]}

\* the dates asked for: those of the inputs and one later day
QueryDates == Days \cup {3}

\* the integer codes given to the enumerated decoders
Codes == (0 - CodeMargin)..(Len(WeatherSymbol) + CodeMargin)

BadShapeTime == [shape |-> "%Y-%m-%d %H:%M:%S", day |-> 1, hour |-> 0]

\* the raw objects given to the decoder alone: complete ones with good and
\* bad timestamps and codes, ones lacking one parameter (each of the 19) or
\* two, ones with an empty values list
DecoderObjects ==
    {RawObject(vt, 0, pc, ws, {}, {}) :
        vt \in {RawTime(1, 0), RawTime(1, 24), BadShapeTime},
        pc \in {0, 6, 7}, ws \in {1, 27, 28}}
    \cup {RawObject(RawTime(1, 0), 0, c[1], c[2], {n}, {}) :
            n \in FieldNames, c \in {<<0, 27>>, <<7, 28>>}}
    \cup {RawObject(vt, 0, 0, 27, {n}, {}) :
            n \in {"msl", "Wsymb2"}, vt \in {RawTime(1, 24), BadShapeTime}}
    \cup {RawObject(RawTime(1, 0), 0, 0, 27, a, h) :
            a \in {{}, {"msl", "Wsymb2"}, {"pcat"}}, h \in {{"t"}, {"Wsymb2"}}}

\* the payloads of two concurrent fetches: thread th sends temperature th - 1
\* on two instants, and one object that does not decode
ConcObjects(th) ==
    {RawObject(RawTime(1, h), th - 1, 3, 18, {}, {}) : h \in {0, 23}}
    \cup {RawObject(RawTime(1, 0), th - 1, 3, 28, {}, {})}

ConcPayloads(th) == SeqsUpTo(ConcObjects(th), MaxLen)

\* every raw object the harnesses use
AllObjects ==
    GoodObjects \cup BadObjects \cup DecoderObjects
    \cup ConcObjects(1) \cup ConcObjects(2)

\* the decoder is a pure function of the raw object: its results, tabulated
DecodeTable ==
    [o \in AllObjects |-> SMHI_timeSeries_object_to_WeatherDataEntry(o)]


----------------------------------------------------------------------------
(* SMHIHelper *)

\* the for loop of fetch over weather["timeSeries"], elements from i on: each
\* element is decoded and stored at once; an element that fails to decode
\* raises out of the loop with the earlier elements already stored
RECURSIVE fetch_loop(_, _, _)
fetch_loop(d, timeSeries, i) ==
    IF i > Len(timeSeries) THEN [store |-> d, res |-> Ok(None)]
    ELSE LET r == DecodeTable[timeSeries[i]] IN
         IF ~r.ok THEN [store |-> d, res |-> r]
         ELSE fetch_loop(DictSet(d, r.val.time, r.val.forecast), timeSeries, i + 1)

\* a buggy fetch: starts from an empty dict, so a refresh replaces the store
fetch_replace(d, response) ==
    IF response.transport # "ok" THEN [store |-> d, res |-> Raise(response.transport)]
    ELSE fetch_loop(<<>>, response.timeSeries, 1)

\* SMHIHelper.fetch: requests.get raises on a transport failure, before the
\* store is touched; otherwise the loop runs over the payload
fetch(d, response) ==
    IF response.transport # "ok" THEN [store |-> d, res |-> Raise(response.transport)]
    ELSE fetch_loop(d, response.timeSeries, 1)

\* list.insert of x into the ascending list s, before the first larger element
RECURSIVE InsertSorted(_, _)
InsertSorted(s, x) ==
    IF s = <<>> THEN <<x>>
    ELSE IF DtLess(x, Head(s)) THEN <<x>> \o s
    ELSE <<Head(s)>> \o InsertSorted(Tail(s), x)

\* sorted(iterable) on datetimes, elements from i on
RECURSIVE sorted_from(_, _, _)
sorted_from(s, i, acc) ==
    IF i > Len(s) THEN acc ELSE sorted_from(s, i + 1, InsertSorted(acc, s[i]))

\* dict.keys(): the keys in insertion order
keys(d) == [i \in 1..Len(d) |-> d[i].k]

\* a buggy get_timestamps: the keys as the dict holds them, not sorted
get_timestamps_unsorted(d) == keys(d)

\* SMHIHelper.get_timestamps
get_timestamps(d) == sorted_from(keys(d), 1, <<>>)

\* a buggy grouping key: the hour of the timestamp instead of its date
group_key_hour(x) == x.hour

\* the key of the groupby in get_dates: lambda x: x.date()
group_key(x) == DateOf(x)

\* itertools.groupby(s, key): the runs of consecutive elements with equal key,
\* as items [k, v]; elements from i on, acc the runs so far
RECURSIVE groupby(_, _, _)
groupby(s, i, acc) ==
    IF i > Len(s) THEN acc
    ELSE IF acc # <<>> /\ acc[Len(acc)].k = group_key(s[i])
         THEN groupby(s, i + 1,
                [acc EXCEPT ![Len(acc)].v = Append(@, s[i])])
         ELSE groupby(s, i + 1, Append(acc, [k |-> group_key(s[i]), v |-> <<s[i]>>]))

\* a dict comprehension over items: later items overwrite earlier ones with
\* the same key
RECURSIVE dict_of(_, _, _)
dict_of(items, i, acc) ==
    IF i > Len(items) THEN acc
    ELSE dict_of(items, i + 1, DictSet(acc, items[i].k, items[i].v))

\* SMHIHelper.get_dates
get_dates(d) == dict_of(groupby(get_timestamps(d), 1, <<>>), 1, <<>>)

\* min(s) of a non-empty list of datetimes: the first smallest element
RECURSIVE min_from(_, _, _)
min_from(s, i, best) ==
    IF i > Len(s) THEN best
    ELSE min_from(s, i + 1, IF DtLess(s[i], best) THEN s[i] ELSE best)

\* a buggy get_current_weather: the latest timestamp instead of the earliest
get_current_weather_last(d) ==
    LET ts == get_timestamps(d) IN
    IF ts = <<>> THEN Raise("ValueError")
    ELSE LET time == ts[Len(ts)] IN Ok(<<time, DictGet(d, time).val>>)

\* SMHIHelper.get_current_weather: min() of an empty list raises ValueError
get_current_weather(d) ==
    LET ts == get_timestamps(d) IN
    IF ts = <<>> THEN Raise("ValueError")
    ELSE LET time == min_from(ts, 2, ts[1]) IN Ok(<<time, DictGet(d, time).val>>)

\* SMHIHelper.get_hourly_forecasts_for_date: self.get_dates()[date] raises
\* KeyError when no stored timestamp falls on the date
get_hourly_forecasts_for_date(d, date) ==
    LET g == DictGet(get_dates(d), date) IN
    IF ~g.ok THEN g
    ELSE Ok(dict_of([i \in 1..Len(g.val) |->
                        [k |-> g.val[i], v |-> DictGet(d, g.val[i]).val]], 1, <<>>))

----------------------------------------------------------------------------
(* The store driven by one caller, a call at a time *)

HarnessIdle ==
    /\ obj = None
    /\ code = 0
    /\ threads = <<>>
    /\ lock = 0
    /\ useLock = FALSE

\* SMHIHelper.__init__
Init ==
    /\ hourly_forecasts = <<>>
    /\ op = "none" /\ arg = None /\ ret = None /\ prev = <<>>
    /\ HarnessIdle

harness == <<obj, code, threads, lock, useLock>>

Fetch ==
    /\ op = "none"
    /\ \E response \in Responses :
        LET r == fetch(hourly_forecasts, response) IN
        /\ hourly_forecasts' = r.store
        /\ op' = "fetch" /\ arg' = response /\ ret' = r.res
    /\ prev' = hourly_forecasts
    /\ UNCHANGED harness

GetTimestamps ==
    /\ op = "none"
    /\ op' = "get_timestamps" /\ arg' = None
    /\ ret' = Ok(get_timestamps(hourly_forecasts))
    /\ prev' = hourly_forecasts
    /\ UNCHANGED <<hourly_forecasts, harness>>

GetDates ==
    /\ op = "none"
    /\ op' = "get_dates" /\ arg' = None
    /\ ret' = Ok(get_dates(hourly_forecasts))
    /\ prev' = hourly_forecasts
    /\ UNCHANGED <<hourly_forecasts, harness>>

GetCurrentWeather ==
    /\ op = "none"
    /\ op' = "get_current_weather" /\ arg' = None
    /\ ret' = get_current_weather(hourly_forecasts)
    /\ prev' = hourly_forecasts
    /\ UNCHANGED <<hourly_forecasts, harness>>

GetHourlyForecastsForDate ==
    /\ op = "none"
    /\ \E date \in QueryDates :
        /\ op' = "get_hourly_forecasts_for_date" /\ arg' = date
        /\ ret' = get_hourly_forecasts_for_date(hourly_forecasts, date)
    /\ prev' = hourly_forecasts
    /\ UNCHANGED <<hourly_forecasts, harness>>

\* the call is over: the caller has its result and is free to call again
Return ==
    /\ op # "none"
    /\ op' = "none" /\ arg' = None /\ ret' = None /\ prev' = <<>>
    /\ UNCHANGED <<hourly_forecasts, harness>>

Next ==
    \/ Fetch
    \/ GetTimestamps
    \/ GetDates
    \/ GetCurrentWeather
    \/ GetHourlyForecastsForDate
    \/ Return

Spec == Init /\ [][Next]_vars

----------------------------------------------------------------------------
(* Properties of the store *)

\* the payload of the fetch just run, and the instants its elements carry
Payload == arg.timeSeries
PayloadTimes == {DecodeTable[Payload[i]].val.time : i \in 1..Len(Payload)}
Committed == op = "fetch" /\ ret.ok /\ arg.transport = "ok"

\* C1: a fetch whose payload holds a timestep that does not decode fails and
\* leaves the timestamp -> entry mapping exactly as it was before the call.
C1_FetchAllOrNothing ==
    (op = "fetch" /\ arg.transport = "ok"
        /\ \E i \in 1..Len(Payload) : ~DecodeTable[Payload[i]].ok)
    => (~ret.ok /\ Mapping(hourly_forecasts) = Mapping(prev))

\* C2: get_hourly_forecasts_for_date never raises because of the date: it
\* returns exactly the stored entries whose timestamp falls on the date, the
\* empty mapping when there are none.
C2_ForDateNeverFails ==
    op = "get_hourly_forecasts_for_date"
    => (ret.ok
        /\ Mapping(ret.val)
             = [k \in {x \in Keys(prev) : x.day = arg} |-> Mapping(prev)[k]])

\* C3: get_current_weather raises on an empty store and otherwise returns
\* (t, mapping[t]) with t the least stored timestamp.
C3_CurrentIsEarliest ==
    op = "get_current_weather"
    => IF prev = <<>> THEN ~ret.ok
       ELSE /\ ret.ok
            /\ ret.val[1] \in Keys(prev)
            /\ \A k \in Keys(prev) : ~DtLess(k, ret.val[1])
            /\ ret.val[2] = Mapping(prev)[ret.val[1]]

\* a populated store queried after three timesteps arrived latest first
C3_Witness ==
    /\ op = "get_current_weather" /\ ret.ok
    /\ Len(prev) = 3
    /\ ret.val[1] = prev[3].k

\* C4 as stated: the store is EMPTY at construction, every fetch that
\* completes without error leaves it POPULATED (get_current_weather
\* succeeds), and a POPULATED store never becomes EMPTY again.
C4_EveryCompletedFetchPopulates ==
    /\ Init => ~get_current_weather(hourly_forecasts).ok
    /\ (op = "fetch" /\ ret.ok) => get_current_weather(hourly_forecasts).ok
    /\ (op # "none" /\ prev # <<>>) => hourly_forecasts # <<>>

\* C4 amended: the store is EMPTY at construction; a fetch that completes
\* without error on a payload with at least one timestep leaves it POPULATED
\* (get_current_weather succeeds), one that completes on an empty timeSeries
\* leaves the store as it was; and a POPULATED store never becomes EMPTY again.
C4_StateMachine ==
    /\ Init => ~get_current_weather(hourly_forecasts).ok
    /\ (Committed /\ Payload # <<>>) => get_current_weather(hourly_forecasts).ok
    /\ (Committed /\ Payload = <<>>) => hourly_forecasts = prev
    /\ (op # "none" /\ prev # <<>>) => hourly_forecasts # <<>>

\* the first fetch that completes on a non-empty payload: EMPTY to POPULATED
C4_Witness ==
    /\ Committed /\ Payload # <<>>
    /\ prev = <<>>
    /\ get_current_weather(hourly_forecasts).ok

\* C5: a fetch that completes merges: every timestamp of the payload maps to
\* the entry decoded from the last timestep carrying it, every other stored
\* timestamp keeps its entry, and no operation ever removes a key.
C5_FetchMerges ==
    /\ Committed =>
        /\ \A i \in 1..Len(Payload) :
            LET r == DecodeTable[Payload[i]].val IN
            (\A j \in (i + 1)..Len(Payload) : DecodeTable[Payload[j]].val.time # r.time)
            => /\ r.time \in Keys(hourly_forecasts)
               /\ Mapping(hourly_forecasts)[r.time] = r.forecast
        /\ \A k \in Keys(prev) \ PayloadTimes :
            /\ k \in Keys(hourly_forecasts)
            /\ Mapping(hourly_forecasts)[k] = Mapping(prev)[k]
        /\ Keys(hourly_forecasts) = Keys(prev) \cup PayloadTimes
    /\ op # "none" => Keys(prev) \subseteq Keys(hourly_forecasts)

\* a refresh that overwrites one stored entry, through a payload carrying that
\* timestamp twice, and keeps another
C5_Witness ==
    /\ Committed
    /\ Len(Payload) = 2
    /\ DecodeTable[Payload[1]].val.time = DecodeTable[Payload[2]].val.time
    /\ DecodeTable[Payload[1]].val.forecast # DecodeTable[Payload[2]].val.forecast
    /\ \E k \in Keys(prev) \cap PayloadTimes :
        Mapping(prev)[k] # Mapping(hourly_forecasts)[k]
    /\ Keys(prev) \ PayloadTimes # {}

\* C6: get_dates partitions the stored timestamps by date: each stored
\* timestamp lies in exactly one group, the one keyed by its date; timestamps
\* ascend within a group, groups come in date order, no group is empty.
C6_GroupsPartitionByDate ==
    LET g == get_dates(hourly_forecasts) IN
    /\ \A k \in Keys(hourly_forecasts) :
        /\ Cardinality({x \in {<<i, j>> : i \in 1..Len(g), j \in 1..Len(hourly_forecasts)} :
                            x[2] <= Len(g[x[1]].v) /\ g[x[1]].v[x[2]] = k}) = 1
        /\ \E i \in 1..Len(g) :
            g[i].k = k.day /\ \E j \in 1..Len(g[i].v) : g[i].v[j] = k
    /\ \A i \in 1..Len(g) :
        /\ Len(g[i].v) >= 1
        /\ Len(g[i].v) <= Len(hourly_forecasts)
        /\ \A j \in 1..Len(g[i].v) : g[i].v[j] \in Keys(hourly_forecasts)
        /\ \A j \in 1..(Len(g[i].v) - 1) : DtLess(g[i].v[j], g[i].v[j + 1])
    /\ \A i \in 1..(Len(g) - 1) : g[i].k < g[i + 1].k
    /\ op = "get_dates" => ret = Ok(g)

\* two timesteps on one date and one on the next, stored latest first, give
\* groups of sizes 2 and 1 in date order
C6_Witness ==
    /\ op = "get_dates"
    /\ Len(prev) = 3 /\ DtLess(prev[2].k, prev[1].k) /\ DtLess(prev[3].k, prev[2].k)
    /\ Len(ret.val) = 2
    /\ Len(ret.val[1].v) = 2 /\ Len(ret.val[2].v) = 1

\* C7: get_timestamps holds each key of the mapping exactly once and nothing
\* else, in strictly ascending order, whatever order the timesteps arrived
\* in; it is empty on an empty store; the keys of the mapping are unique.
C7_TimestampsSortedKeys ==
    LET ts == get_timestamps(hourly_forecasts) IN
    /\ {ts[i] : i \in 1..Len(ts)} = Keys(hourly_forecasts)
    /\ Len(ts) = Cardinality(Keys(hourly_forecasts))
    /\ Len(hourly_forecasts) = Cardinality(Keys(hourly_forecasts))
    /\ \A i \in 1..(Len(ts) - 1) : DtLess(ts[i], ts[i + 1])
    /\ hourly_forecasts = <<>> => ts = <<>>
    /\ op = "get_timestamps" => ret = Ok(ts)

\* three timestamps stored in an order that is neither ascending nor descending
C7_Witness ==
    /\ op = "get_timestamps"
    /\ Len(prev) = 3 /\ DtLess(prev[2].k, prev[1].k) /\ DtLess(prev[2].k, prev[3].k)
    /\ Len(ret.val) = 3

----------------------------------------------------------------------------
(* The decoders applied to one input *)

InitDecoder ==
    /\ hourly_forecasts = <<>>
    /\ op = "none" /\ arg = None /\ ret = None /\ prev = <<>>
    /\ \/ obj \in DecoderObjects /\ code = 0
       \/ obj = None /\ code \in Codes
    /\ threads = <<>> /\ lock = 0 /\ useLock = FALSE

Decode ==
    /\ op = "none" /\ obj # None
    /\ op' = "decode"
    /\ ret' = SMHI_timeSeries_object_to_WeatherDataEntry(obj)
    /\ UNCHANGED <<hourly_forecasts, arg, prev, harness>>

FromCode ==
    /\ op = "none" /\ obj = None
    /\ op' = "from_code"
    /\ ret' = from_code(code)
    /\ UNCHANGED <<hourly_forecasts, arg, prev, harness>>

PcatCall ==
    /\ op = "none" /\ obj = None
    /\ op' = "PCAT"
    /\ ret' = PCAT_call(code)
    /\ UNCHANGED <<hourly_forecasts, arg, prev, harness>>

\* a fetch whose payload holds the object, alone or beside one that decodes
FetchObject ==
    /\ op = "none" /\ obj # None
    /\ \E good \in {RawObject(RawTime(2, 0), 0, 3, 18, {}, {})} :
       \E timeSeries \in {<<obj>>, <<good, obj>>, <<obj, good>>} :
        LET response == [transport |-> "ok", timeSeries |-> timeSeries]
            r == fetch(hourly_forecasts, response) IN
        /\ hourly_forecasts' = r.store
        /\ op' = "fetch" /\ arg' = response /\ ret' = r.res
    /\ prev' = hourly_forecasts
    /\ UNCHANGED harness

NextDecoder ==
    \/ Decode
    \/ FromCode
    \/ PcatCall
    \/ FetchObject

SpecDecoder == InitDecoder /\ [][NextDecoder]_vars

\* the parameter names a raw object carries
ParamNames(o) == {o.parameters[i].name : i \in 1..Len(o.parameters)}

\* C8: the decoder raises, producing no entry, whenever one of the 19 required
\* parameter names is absent from the object; an entry it does produce has all
\* 19 fields, each from a parameter the object carries; and a fetch whose
\* payload holds an object lacking a required name fails.
C8_MissingFieldFails ==
    /\ (op = "decode" /\ ~(FieldNames \subseteq ParamNames(obj))) => ~ret.ok
    /\ (op = "decode" /\ ret.ok) =>
        /\ DOMAIN ret.val.forecast = FieldNames
        /\ \A n \in FieldNames :
            \E i \in 1..Len(obj.parameters) :
                /\ obj.parameters[i].name = n
                /\ ret.val.forecast[n].unit = obj.parameters[i].unit
    /\ (op = "fetch"
            /\ \E i \in 1..Len(Payload) : ~(FieldNames \subseteq ParamNames(Payload[i])))
       => ~ret.ok

\* an object complete but for the last field of the entry, Wsymb2
C8_Witness ==
    /\ op = "decode"
    /\ ParamNames(obj) = FieldNames \ {"Wsymb2"}
    /\ ~ret.ok /\ ret.err = "TypeError"

\* C9: from_code returns, for a code in 1..27, the one member whose code is
\* the argument, and PCAT(v), for v in 0..6, the member with that value; on
\* any other integer either raises and returns no member.
C9_EnumDecodersExact ==
    /\ op = "from_code" =>
        IF code \in 1..27
        THEN /\ ret.ok
             /\ ret.val.code = code
             /\ \E i \in 1..Len(WeatherSymbol) : WeatherSymbol[i] = ret.val
             /\ Cardinality({i \in 1..Len(WeatherSymbol) : WeatherSymbol[i].code = code}) = 1
        ELSE ~ret.ok
    /\ op = "PCAT" =>
        IF code \in 0..6
        THEN /\ ret.ok
             /\ ret.val.value = code
             /\ \E i \in 1..Len(PCAT) : PCAT[i] = ret.val
        ELSE ~ret.ok

\* the first code past the table
C9_Witness ==
    /\ op = "from_code" /\ code = 28 /\ ~ret.ok

----------------------------------------------------------------------------
(* Two threads calling fetch on one store *)

Threads == {1, 2}

\* callers that serialize take the per-store lock around the call to fetch
LockFree == ~useLock \/ lock = 0
Acquired(th) == IF useLock THEN th ELSE lock
Released(th) == IF useLock /\ lock = th THEN 0 ELSE lock

InitConcurrent ==
    /\ hourly_forecasts = <<>>
    /\ op = "none" /\ arg = None /\ ret = None /\ prev = <<>>
    /\ obj = None /\ code = 0
    /\ \E p1 \in ConcPayloads(1), p2 \in ConcPayloads(2) :
        threads = << [pc |-> "idle", timeSeries |-> p1, i |-> 1],
                     [pc |-> "idle", timeSeries |-> p2, i |-> 1] >>
    /\ lock = 0
    /\ useLock \in BOOLEAN

\* the thread enters fetch and has its payload: weather = json.loads(...)
ConcCall(th) ==
    /\ threads[th].pc = "idle"
    /\ LockFree
    /\ lock' = Acquired(th)
    /\ threads' = [threads EXCEPT ![th].pc = "loop"]
    /\ UNCHANGED <<hourly_forecasts, op, arg, ret, prev, obj, code, useLock>>

\* a buggy iteration: rebinds the dict to the one new item
ConcIterRebind(th) ==
    /\ threads[th].pc = "loop"
    /\ threads[th].i <= Len(threads[th].timeSeries)
    /\ LET r == DecodeTable[threads[th].timeSeries[threads[th].i]] IN
       IF r.ok
       THEN /\ hourly_forecasts' = <<[k |-> r.val.time, v |-> r.val.forecast]>>
            /\ threads' = [threads EXCEPT ![th].i = @ + 1]
            /\ lock' = lock
       ELSE /\ threads' = [threads EXCEPT ![th].pc = "raised"]
            /\ lock' = Released(th)
            /\ UNCHANGED hourly_forecasts
    /\ UNCHANGED <<op, arg, ret, prev, obj, code, useLock>>

\* one iteration of the loop of fetch: the element is decoded and stored in
\* the shared dict (one dict store, atomic in the interpreter); an element
\* that does not decode raises out of fetch
ConcIter(th) ==
    /\ threads[th].pc = "loop"
    /\ threads[th].i <= Len(threads[th].timeSeries)
    /\ LET r == DecodeTable[threads[th].timeSeries[threads[th].i]] IN
       IF r.ok
       THEN /\ hourly_forecasts' = DictSet(hourly_forecasts, r.val.time, r.val.forecast)
            /\ threads' = [threads EXCEPT ![th].i = @ + 1]
            /\ lock' = lock
       ELSE /\ threads' = [threads EXCEPT ![th].pc = "raised"]
            /\ lock' = Released(th)
            /\ UNCHANGED hourly_forecasts
    /\ UNCHANGED <<op, arg, ret, prev, obj, code, useLock>>

\* the loop is exhausted and fetch returns
ConcReturn(th) ==
    /\ threads[th].pc = "loop"
    /\ threads[th].i > Len(threads[th].timeSeries)
    /\ threads' = [threads EXCEPT ![th].pc = "done"]
    /\ lock' = Released(th)
    /\ UNCHANGED <<hourly_forecasts, op, arg, ret, prev, obj, code, useLock>>

NextConcurrent ==
    \E th \in Threads :
        \/ ConcCall(th)
        \/ ConcIter(th)
        \/ ConcReturn(th)

SpecConcurrent == InitConcurrent /\ [][NextConcurrent]_vars

AllFinished == \A th \in Threads : threads[th].pc \in {"done", "raised"}

\* the mapping left by the two fetches run one after the other, a first
Sequential(a, b) ==
    LET resp(th) == [transport |-> "ok", timeSeries |-> threads[th].timeSeries] IN
    Mapping(fetch(fetch(<<>>, resp(a)).store, resp(b)).store)

\* C10: two fetches on one store that the callers serialize with a per-store
\* lock leave the mapping that one of the two sequential orders leaves; the
\* mapping that is neither (entries of different timestamps from different
\* payloads) is reachable only without the lock.
C10_SerializedFetchesAreSequential ==
    (AllFinished /\ useLock)
    => Mapping(hourly_forecasts) \in {Sequential(1, 2), Sequential(2, 1)}

\* unserialized, both fetches complete on payloads sharing their timestamps
\* and leave a mapping that neither sequential order leaves
C10_Witness ==
    /\ ~useLock
    /\ \A th \in Threads : threads[th].pc = "done"
    /\ Mapping(hourly_forecasts) \notin {Sequential(1, 2), Sequential(2, 1)}
    /\ \E k1, k2 \in Keys(hourly_forecasts) :
        /\ Mapping(hourly_forecasts)[k1].t.value = 0
        /\ Mapping(hourly_forecasts)[k2].t.value = 1

====
